---- MODULE Spec2Model ----
(***************************************************************************)
(* A model of the drasken-go-lexer scanner: DraskenLexer.GenerateTokens    *)
(* (lexer/lexer.go) and the classifier GenerateNewToken (lexer/token.go).  *)
(*                                                                         *)
(* A Go string is a sequence of one-character strings; Go's 0-based byte   *)
(* index i is position i+1 of the sequence.  A run-time panic (index or    *)
(* slice out of range) is the control state "panic".                       *)
(***************************************************************************)
EXTENDS Integers, Sequences, FiniteSets, TLC

VARIABLES
    input,            \* DraskenLexer.input
    commentPrefixes,  \* DraskenLexer.commentPrefixes
    columnPosition,   \* DraskenLexer.columnPosition
    linePosition,     \* DraskenLexer.linePosition
    tokens,           \* GenerateTokens: the local slice tokens
    line,             \* GenerateTokens: the outer loop's local line (lexer.go:35)
    lineLen,          \* GenerateTokens: the outer loop's local lineLen (lexer.go:44)
    startLine,        \* raw string: local startLine (lexer.go:57)
    startColumn,      \* raw string: local startColumn (lexer.go:58)
    content,          \* raw string: the strings.Builder content (lexer.go:59)
    terminated,       \* raw string: local terminated (lexer.go:63)
    pc,               \* the position of the call in GenerateTokens
    returned,         \* the results GenerateTokens has returned, oldest first
    arg,              \* TestGenerateNewToken: the case handed to GenerateNewToken
    tok               \* TestGenerateNewToken: the token GenerateNewToken returned

vars == <<input, commentPrefixes, columnPosition, linePosition, tokens, line,
          lineLen, startLine, startColumn, content, terminated, pc, returned,
          arg, tok>>

lexerVars == <<input, commentPrefixes, columnPosition, linePosition, tokens, line,
               lineLen, startLine, startColumn, content, terminated, returned>>

-----------------------------------------------------------------------------
(* Bounds of the model *)

\* the longest input text Init draws, in bytes (line feeds included)
MaxInputLen == 4

\* how many times GenerateTokens is called on one lexer
MaxCalls == 2

\* the longest literal handed to GenerateNewToken by the classifier test
MaxLitLen == 2

\* the largest start, end and line handed to GenerateNewToken by the test
MaxPos == 1

\* longest input text of the runs checked under fairness
MaxFairLen == 2

-----------------------------------------------------------------------------
(* Characters *)

LF == "\n"
CR == "\r"
TAB == "\t"
FF == "\f"
SPACE == " "
\* the byte 0x60 (grave accent), which a string of this language cannot hold
BACKTICK == "0x60"
DQUOTE == "\""
SQUOTE == "'"

\* what an index outside a string reads: Go panics there
OOB == "out of range"

Letters ==
    {"a","b","c","d","e","f","g","h","i","j","k","l","m",
     "n","o","p","q","r","s","t","u","v","w","x","y","z",
     "A","B","C","D","E","F","G","H","I","J","K","L","M",
     "N","O","P","Q","R","S","T","U","V","W","X","Y","Z"}

Digits == {"0","1","2","3","4","5","6","7","8","9"}

isLetter(ch) == ch \in Letters

isDigit(ch) == ch \in Digits

isOperator(ch) == ch \in {"+", "-", "*", "/", "%", "=", "<", ">", "!", "&", "|", "^"}

isPunctuation(ch) == ch \in {".", ",", ";", ":", "(", ")", "{", "}", "[", "]"}

\* isUnderscore that knows no underscore
isUnderscoreNever(ch) == FALSE

isUnderscore(ch) == ch = "_"

isWhitespace(ch) == ch = SPACE \/ ch = TAB \/ ch = LF \/ ch = CR

isAlphanumericOrUnderscore(ch) == isLetter(ch) \/ isDigit(ch) \/ isUnderscore(ch)

-----------------------------------------------------------------------------
(* Strings *)

\* s[i] of Go, i counted from 0
At(s, i) == IF 0 <= i /\ i < Len(s) THEN s[i + 1] ELSE OOB

\* s[a:b] of Go
Slice(s, a, b) == SubSeq(s, a + 1, b)

\* the index of the first sep at or after i, Len(s) when there is none
RECURSIVE IndexFrom(_, _, _)
IndexFrom(s, sep, i) ==
    IF i >= Len(s) THEN Len(s)
    ELSE IF s[i + 1] = sep THEN i
    ELSE IndexFrom(s, sep, i + 1)

\* strings.Split(s, sep) for a one-byte sep: the pieces between the separators
RECURSIVE Split(_, _)
Split(s, sep) ==
    LET k == IndexFrom(s, sep, 0) IN
    IF k = Len(s) THEN <<s>>
    ELSE <<Slice(s, 0, k)>> \o Split(Slice(s, k + 1, Len(s)), sep)

\* the white space strings.TrimSpace removes, within ASCII
TrimSet == {SPACE, TAB, LF, CR, FF}

RECURSIVE TrimLeft(_)
TrimLeft(s) ==
    IF s # <<>> /\ Head(s) \in TrimSet THEN TrimLeft(Tail(s)) ELSE s

RECURSIVE TrimRight(_)
TrimRight(s) ==
    IF s # <<>> /\ s[Len(s)] \in TrimSet THEN TrimRight(SubSeq(s, 1, Len(s) - 1)) ELSE s

\* strings.TrimSpace
TrimSpace(s) == TrimRight(TrimLeft(s))

\* strings.HasPrefix
HasPrefix(s, prefix) == Len(prefix) <= Len(s) /\ SubSeq(s, 1, Len(prefix)) = prefix

-----------------------------------------------------------------------------
(* Token kinds, by the names of tokenTypeNames *)

ILLEGAL == "ILLEGAL"
EOF == "EOF"
IDENT == "IDENT"
INT == "INT"
\* the kind STRING of lexer.go:86 (the word STRING itself is reserved here)
STRING_ == "STRING"
ASSIGN == "ASSIGN"
PLUS == "PLUS"
MINUS == "MINUS"
ASTERISK == "ASTERISK"
SLASH == "SLASH"
PERCENT == "PERCENT"
EQ == "EQ"
LT == "LT"
GT == "GT"
BANG == "BANG"
AND == "AND"
OR == "OR"
XOR == "XOR"
DOT == "DOT"
COMMA == "COMMA"
SEMICOLON == "SEMICOLON"
COLON == "COLON"
LPAREN == "LPAREN"
RPAREN == "RPAREN"
LBRACE == "LBRACE"
RBRACE == "RBRACE"
LBRACKET == "LBRACKET"
RBRACKET == "RBRACKET"

\* what literal[0] of an empty literal gives: a run-time panic, no kind
PANIC == "PANIC"

Token(type, literal, start, end, ln) ==
    [Type |-> type, Literal |-> literal, Start |-> start, End |-> end, Line |-> ln]

GenerateNewToken(literal, start, end, ln) ==
    LET tokenType ==
            CASE literal = <<"+">> -> PLUS
              [] literal = <<"-">> -> MINUS
              [] literal = <<"*">> -> ASTERISK
              [] literal = <<"/">> -> SLASH
              [] literal = <<"%">> -> PERCENT
              [] literal = <<"=">> -> ASSIGN
              [] literal = <<"=", "=">> -> EQ
              [] literal = <<"<">> -> LT
              [] literal = <<">">> -> GT
              [] literal = <<"!">> -> BANG
              [] literal = <<"&">> -> AND
              [] literal = <<"|">> -> OR
              [] literal = <<"^">> -> XOR
              [] literal = <<".">> -> DOT
              [] literal = <<",">> -> COMMA
              [] literal = <<";">> -> SEMICOLON
              [] literal = <<":">> -> COLON
              [] literal = <<"(">> -> LPAREN
              [] literal = <<")">> -> RPAREN
              [] literal = <<"{">> -> LBRACE
              [] literal = <<"}">> -> RBRACE
              [] literal = <<"[">> -> LBRACKET
              [] literal = <<"]">> -> RBRACKET
              [] OTHER ->
                    IF At(literal, 0) = OOB THEN PANIC
                    ELSE IF isDigit(At(literal, 0)) THEN INT
                    ELSE IF isLetter(At(literal, 0)) \/ isUnderscore(At(literal, 0)) THEN IDENT
                    ELSE ILLEGAL
    IN  Token(tokenType, literal, start, end, ln)

-----------------------------------------------------------------------------
(* generateLiteral *)

\* quotedEnd that stops on the closing quote and leaves it unread
RECURSIVE quotedEndBeforeClose(_, _, _)
quotedEndBeforeClose(ln, i, quote) ==
    IF i < Len(ln)
    THEN IF At(ln, i) = quote THEN i ELSE quotedEndBeforeClose(ln, i + 1, quote)
    ELSE i

\* the quoted-string loop: the index after the closing quote, or the line's end
RECURSIVE quotedEnd(_, _, _)
quotedEnd(ln, i, quote) ==
    IF i < Len(ln)
    THEN IF At(ln, i) = quote THEN i + 1 ELSE quotedEnd(ln, i + 1, quote)
    ELSE i

\* the number loop: digits and at most one '.'
RECURSIVE numberEnd(_, _, _)
numberEnd(ln, i, hasDot) ==
    IF i < Len(ln)
    THEN IF At(ln, i) = "."
         THEN IF hasDot THEN i ELSE numberEnd(ln, i + 1, TRUE)
         ELSE IF ~isDigit(At(ln, i)) THEN i
         ELSE numberEnd(ln, i + 1, hasDot)
    ELSE i

\* the identifier loop
RECURSIVE identEnd(_, _)
identEnd(ln, i) ==
    IF i < Len(ln) /\ isAlphanumericOrUnderscore(At(ln, i)) THEN identEnd(ln, i + 1) ELSE i

\* doubleEquals without the lookahead: every '=' starts a '=='
doubleEqualsNoLookahead(ln, start) == At(ln, start) = "="

\* the lookahead of the operator rule: '=' at start and '=' right after it
doubleEquals(ln, start) ==
    At(ln, start) = "=" /\ start + 1 < Len(ln) /\ At(ln, start + 1) = "="

\* generateLiteral(line) at l.columnPosition = start: the literal it returns and
\* the l.columnPosition it leaves; panic when an index or a slice is out of range
generateLiteral(ln, start) ==
    LET ch == At(ln, start)
        cut(i) == [literal |-> Slice(ln, start, i), col |-> i,
                   panic |-> i > Len(ln) \/ i < start]
    IN  IF ch = OOB THEN [literal |-> <<>>, col |-> start, panic |-> TRUE]
        ELSE IF ch = DQUOTE \/ ch = SQUOTE THEN cut(quotedEnd(ln, start + 1, ch))
        ELSE IF isDigit(ch) \/ (ch = "." /\ start + 1 < Len(ln) /\ isDigit(At(ln, start + 1)))
             THEN cut(numberEnd(ln, start, FALSE))
        ELSE IF isLetter(ch) \/ ch = "_" THEN cut(identEnd(ln, start))
        ELSE IF isOperator(ch)
             THEN IF doubleEquals(ln, start)
                  THEN [literal |-> <<"=", "=">>, col |-> start + 2, panic |-> FALSE]
                  ELSE [literal |-> <<ch>>, col |-> start + 1, panic |-> FALSE]
        ELSE IF isPunctuation(ch)
             THEN [literal |-> <<ch>>, col |-> start + 1, panic |-> FALSE]
        ELSE [literal |-> <<ch>>, col |-> start + 1, panic |-> FALSE]

\* shouldSkipLine testing the line as it is, untrimmed
shouldSkipLineUntrimmed(ln, prefixes) ==
    \E k \in 1..Len(prefixes) : HasPrefix(ln, prefixes[k])

\* shouldSkipLine looking for the prefix anywhere in the line
shouldSkipLineAnywhere(ln, prefixes) ==
    \E k \in 1..Len(prefixes) : \E i \in 0..Len(ln) :
        HasPrefix(Slice(ln, i, Len(ln)), prefixes[k])

\* shouldSkipLine
shouldSkipLine(ln, prefixes) ==
    LET trimmed == TrimSpace(ln) IN
    \E k \in 1..Len(prefixes) : HasPrefix(trimmed, prefixes[k])

-----------------------------------------------------------------------------
(* The inputs Init draws *)

\* the sequences over S of length at most n
SeqsUpTo(S, n) == UNION {[1..k -> S] : k \in 0..n}

\* one byte of each class the scanner tells apart
Alphabet == {BACKTICK, LF, SPACE, "a", "1", ".", "=", "#", DQUOTE}

\* no prefix, and a list of two with a prefix of two bytes
PrefixLists == {<<>>, << <<"a", "=">>, <<"#">> >>}

\* the scenarios of the specification and of TestGenerateTokens
MultiLineRaw == <<BACKTICK, "m", "u", "l", "t", "i", LF, "l", "i", "n", "e", BACKTICK>>

CommentScenario ==
    <<"x", " ", "=", " ", "5", " ", "+", " ", "1", "0", ";", LF,
      "/", "/", " ", "c", "o", "m", "m", "e", "n", "t", LF,
      "y", " ", "=", " ", "x", " ", "*", " ", "2", ";">>

\* an indented comment line, then a line with the prefix after code
InlineCommentScenario ==
    <<" ", "/", "/", " ", "d", LF,
      "x", " ", "=", " ", "1", " ", "/", "/", " ", "c">>

Scenarios ==
    { [input |-> MultiLineRaw, commentPrefixes |-> <<>>],
      [input |-> CommentScenario, commentPrefixes |-> << <<"/", "/">> >>],
      [input |-> InlineCommentScenario, commentPrefixes |-> << <<"/", "/">> >>],
      [input |-> <<"@">>, commentPrefixes |-> <<>>],
      [input |-> <<FF>>, commentPrefixes |-> <<>>],
      [input |-> <<SQUOTE, "a", DQUOTE, SQUOTE, "b">>, commentPrefixes |-> <<>>] }

Inputs ==
    [input : SeqsUpTo(Alphabet, MaxInputLen), commentPrefixes : PrefixLists] \cup Scenarios

\* the literals the classifier test hands to GenerateNewToken
Symbols ==
    { <<"+">>, <<"-">>, <<"*">>, <<"/">>, <<"%">>, <<"=">>, <<"=", "=">>, <<"<">>,
      <<">">>, <<"!">>, <<"&">>, <<"|">>, <<"^">>, <<".">>, <<",">>, <<";">>, <<":">>,
      <<"(">>, <<")">>, <<"{">>, <<"}">>, <<"[">>, <<"]">> }

TestAlphabet == {"a", "_", "1", "=", "+", ".", "@", SPACE, BACKTICK, DQUOTE}

TestLiterals ==
    Symbols \cup SeqsUpTo(TestAlphabet, MaxLitLen)
        \cup { <<"1", "2", "3">>, <<"a", "b", "c">>, <<"_", "f", "o", "o">> }

-----------------------------------------------------------------------------
(* The state after NewLexer, before the first call of GenerateTokens *)

NoToken == Token(ILLEGAL, <<>>, 0, 0, 0)

NoArg == [literal |-> <<>>, start |-> 0, end |-> 0, line |-> 0]

\* lines := strings.Split(l.input, "\n")
lines == Split(input, LF)

NewLexer(in, prefixes) ==
    /\ input = in
    /\ commentPrefixes = prefixes
    /\ columnPosition = 0
    /\ linePosition = 0

Init ==
    /\ \E i \in Inputs : NewLexer(i.input, i.commentPrefixes)
    /\ tokens = <<>>
    /\ line = <<>>
    /\ lineLen = 0
    /\ startLine = 0
    /\ startColumn = 0
    /\ content = <<>>
    /\ terminated = FALSE
    /\ returned = <<>>
    /\ pc = "outer"
    /\ arg = NoArg
    /\ tok = NoToken

-----------------------------------------------------------------------------
(* GenerateTokens, one action per step of its loops *)

\* rawScan that leaves the column on the closing backtick
RECURSIVE rawScanStaysOnClose(_, _, _)
rawScanStaysOnClose(ln, col, acc) ==
    IF col < Len(ln)
    THEN IF At(ln, col) = BACKTICK
         THEN [content |-> Append(acc, BACKTICK), col |-> col, terminated |-> TRUE]
         ELSE rawScanStaysOnClose(ln, col + 1, Append(acc, At(ln, col)))
    ELSE [content |-> acc, col |-> col, terminated |-> FALSE]

\* the raw-string character loop on one line, from column col: the content, the
\* column and terminated as the loop leaves them
RECURSIVE rawScan(_, _, _)
rawScan(ln, col, acc) ==
    IF col < Len(ln)
    THEN IF At(ln, col) = BACKTICK
         THEN [content |-> Append(acc, BACKTICK), col |-> col + 1, terminated |-> TRUE]
         ELSE rawScan(ln, col + 1, Append(acc, At(ln, col)))
    ELSE [content |-> acc, col |-> col, terminated |-> FALSE]

\* the token appended for a raw string
rawToken(literal, start, end, ln) == Token(STRING_, literal, start, end, ln)

\* eofToken with the kind's name as the literal
eofTokenNamed(col, ln) == Token(EOF, <<"E", "O", "F">>, col, col, ln)

\* the token appended when the lines are exhausted
eofToken(col, ln) == Token(EOF, <<>>, col, col, ln)

\* ch read from the line of the line cursor, within the held line's length
chOfCursorLine ==
    IF linePosition < Len(lines) THEN At(At(lines, linePosition), columnPosition) ELSE OOB

\* ch := line[l.columnPosition], read from the line the outer loop holds
ch == At(line, columnPosition)

\* the outer loop finds a comment line: l.linePosition++; continue
SkipLine ==
    /\ pc = "outer"
    /\ linePosition < Len(lines)
    /\ shouldSkipLine(At(lines, linePosition), commentPrefixes)
    /\ line' = At(lines, linePosition)
    /\ linePosition' = linePosition + 1
    /\ UNCHANGED <<input, commentPrefixes, columnPosition, tokens, lineLen, startLine,
                   startColumn, content, terminated, pc, returned, arg, tok>>

\* the outer loop takes up a line that is no comment
BeginLine ==
    /\ pc = "outer"
    /\ linePosition < Len(lines)
    /\ ~shouldSkipLine(At(lines, linePosition), commentPrefixes)
    /\ line' = At(lines, linePosition)
    /\ columnPosition' = 0
    /\ lineLen' = Len(line')
    /\ pc' = "inner"
    /\ UNCHANGED <<input, commentPrefixes, linePosition, tokens, startLine, startColumn,
                   content, terminated, returned, arg, tok>>

\* the inner loop skips one white-space character of the held line
SkipWhitespace ==
    /\ pc = "inner"
    /\ columnPosition < lineLen
    /\ isWhitespace(ch)
    /\ columnPosition' = columnPosition + 1
    /\ UNCHANGED <<input, commentPrefixes, linePosition, tokens, line, lineLen, startLine,
                   startColumn, content, terminated, pc, returned, arg, tok>>

\* the inner loop finds a backtick on the held line and opens a raw string
OpenRaw ==
    /\ pc = "inner"
    /\ columnPosition < lineLen
    /\ ch = BACKTICK
    /\ startLine' = linePosition
    /\ startColumn' = columnPosition
    /\ content' = <<BACKTICK>>
    /\ columnPosition' = columnPosition + 1
    /\ terminated' = FALSE
    /\ pc' = "raw"
    /\ UNCHANGED <<input, commentPrefixes, linePosition, tokens, line, lineLen, returned,
                   arg, tok>>

\* one turn of the raw-string loop: the rest of line l.linePosition, then, when
\* the string is still open, a newline and the next line
RawLine ==
    /\ pc = "raw"
    /\ ~terminated
    /\ linePosition < Len(lines)
    /\ LET r == rawScan(At(lines, linePosition), columnPosition, content) IN
       /\ terminated' = r.terminated
       /\ content' = IF r.terminated THEN r.content ELSE Append(r.content, LF)
       /\ linePosition' = IF r.terminated THEN linePosition ELSE linePosition + 1
       /\ columnPosition' = IF r.terminated THEN r.col ELSE 0
    /\ UNCHANGED <<input, commentPrefixes, tokens, line, lineLen, startLine, startColumn,
                   pc, returned, arg, tok>>

\* the raw-string loop has ended: append the token and continue the inner loop
EmitRaw ==
    /\ pc = "raw"
    /\ terminated \/ linePosition >= Len(lines)
    /\ tokens' = Append(tokens, rawToken(content, startColumn, columnPosition, startLine))
    /\ pc' = "inner"
    /\ UNCHANGED <<input, commentPrefixes, columnPosition, linePosition, line, lineLen,
                   startLine, startColumn, content, terminated, returned, arg, tok>>

\* the inner loop extracts a literal from the held line and classifies it
ExtractLiteral ==
    /\ pc = "inner"
    /\ columnPosition < lineLen
    /\ ~isWhitespace(ch)
    /\ ch # BACKTICK
    /\ LET literalStart == columnPosition
           r == generateLiteral(line, columnPosition)
           token == GenerateNewToken(r.literal, literalStart, r.col, linePosition)
           skip == TrimSpace(r.literal) = <<>>
           panics == ch = OOB \/ r.panic \/ (~skip /\ token.Type = PANIC)
       IN  /\ columnPosition' = r.col
           /\ tokens' = IF panics \/ skip THEN tokens ELSE Append(tokens, token)
           /\ pc' = IF panics THEN "panic" ELSE "inner"
    /\ UNCHANGED <<input, commentPrefixes, linePosition, line, lineLen, startLine,
                   startColumn, content, terminated, returned, arg, tok>>

\* the inner loop has reached lineLen: l.linePosition++
EndLine ==
    /\ pc = "inner"
    /\ columnPosition >= lineLen
    /\ linePosition' = linePosition + 1
    /\ pc' = "outer"
    /\ UNCHANGED <<input, commentPrefixes, columnPosition, tokens, line, lineLen, startLine,
                   startColumn, content, terminated, returned, arg, tok>>

\* the outer loop has ended: append the EOF token and return
EmitEOF ==
    /\ pc = "outer"
    /\ linePosition >= Len(lines)
    /\ tokens' = Append(tokens, eofToken(columnPosition, linePosition))
    /\ returned' = Append(returned, tokens')
    /\ pc' = "done"
    /\ UNCHANGED <<input, commentPrefixes, columnPosition, linePosition, line, lineLen,
                   startLine, startColumn, content, terminated, arg, tok>>

\* GenerateTokens is called again on the same lexer: tokens := []Token{}
CallAgain ==
    /\ pc = "done"
    /\ Len(returned) < MaxCalls
    /\ tokens' = <<>>
    /\ pc' = "outer"
    /\ UNCHANGED <<input, commentPrefixes, columnPosition, linePosition, line, lineLen,
                   startLine, startColumn, content, terminated, returned, arg, tok>>

Next ==
    \/ SkipLine
    \/ BeginLine
    \/ SkipWhitespace
    \/ OpenRaw
    \/ RawLine
    \/ EmitRaw
    \/ ExtractLiteral
    \/ EndLine
    \/ EmitEOF
    \/ CallAgain

Spec == Init /\ [][Next]_vars

\* a call of GenerateTokens runs on until it returns; whether the caller calls
\* it again is the caller's choice
ScanStep ==
    SkipLine \/ BeginLine \/ SkipWhitespace \/ OpenRaw \/ RawLine \/ EmitRaw
        \/ ExtractLiteral \/ EndLine \/ EmitEOF

\* the inputs of the runs whose every behaviour is followed to its end: every
\* text of up to MaxFairLen characters, and the Scenarios
FairInputs ==
    { i \in Inputs : Len(i.input) <= MaxFairLen \/ i \in Scenarios }

InitFair ==
    /\ \E i \in FairInputs : NewLexer(i.input, i.commentPrefixes)
    /\ tokens = <<>>
    /\ line = <<>>
    /\ lineLen = 0
    /\ startLine = 0
    /\ startColumn = 0
    /\ content = <<>>
    /\ terminated = FALSE
    /\ returned = <<>>
    /\ pc = "outer"
    /\ arg = NoArg
    /\ tok = NoToken

FairSpec == InitFair /\ [][Next]_vars /\ WF_vars(ScanStep)

-----------------------------------------------------------------------------
(* TestGenerateNewToken: the classifier applied to one literal *)

InitToken ==
    /\ NewLexer(<<>>, <<>>)
    /\ tokens = <<>>
    /\ line = <<>>
    /\ lineLen = 0
    /\ startLine = 0
    /\ startColumn = 0
    /\ content = <<>>
    /\ terminated = FALSE
    /\ returned = <<>>
    /\ pc = "test"
    /\ arg \in [literal : TestLiterals, start : 0..MaxPos, end : 0..MaxPos, line : 0..MaxPos]
    /\ tok = NoToken

Classify ==
    /\ pc = "test"
    /\ tok' = GenerateNewToken(arg.literal, arg.start, arg.end, arg.line)
    /\ pc' = "tested"
    /\ UNCHANGED <<lexerVars, arg>>

NextToken == Classify

SpecToken == InitToken /\ [][NextToken]_vars

-----------------------------------------------------------------------------
(* What the claims speak of *)

\* the first call has returned
Returned == Len(returned) >= 1

\* what the first call of GenerateTokens on the fresh lexer returned
result == returned[1]

Last(s) == s[Len(s)]

\* the (kind, literal) pairs of a token sequence
RECURSIVE KindLits(_)
KindLits(ts) ==
    IF ts = <<>> THEN <<>> ELSE <<<<Head(ts).Type, Head(ts).Literal>>>> \o KindLits(Tail(ts))

RECURSIVE Literals(_)
Literals(ts) == IF ts = <<>> THEN <<>> ELSE <<Head(ts).Literal>> \o Literals(Tail(ts))

\* s holds the character c
Holds(s, c) == \E k \in 1..Len(s) : s[k] = c

\* a comment line, in the words of the specification: the trimmed text begins
\* with a configured prefix
IsCommentLine(ln, prefixes) ==
    \E k \in 1..Len(prefixes) :
        LET t == TrimSpace(ln) IN
        Len(t) >= Len(prefixes[k]) /\ \A j \in 1..Len(prefixes[k]) : t[j] = prefixes[k][j]

\* the (kind, literal) pairs one line without backticks gives, scanned alone from col
RECURSIVE LineKindLits(_, _)
LineKindLits(ln, col) ==
    IF col >= Len(ln) THEN <<>>
    ELSE IF isWhitespace(At(ln, col)) THEN LineKindLits(ln, col + 1)
    ELSE LET r == generateLiteral(ln, col)
             t == GenerateNewToken(r.literal, col, r.col, 0)
         IN  (IF TrimSpace(r.literal) = <<>> THEN <<>> ELSE <<<<t.Type, t.Literal>>>>)
                 \o LineKindLits(ln, r.col)

\* the pairs of the lines from index i on, comment lines left out, then EOF
RECURSIVE PairsWithoutComments(_, _, _)
PairsWithoutComments(ls, prefixes, i) ==
    IF i > Len(ls) THEN <<<<EOF, <<>>>>>>
    ELSE (IF IsCommentLine(ls[i], prefixes) THEN <<>> ELSE LineKindLits(ls[i], 0))
             \o PairsWithoutComments(ls, prefixes, i + 1)

-----------------------------------------------------------------------------
(* C1: the first call of GenerateTokens on a fresh lexer returns a non-empty     *)
(* sequence whose last token has kind EOF and an empty literal, no other token *)
(* has kind EOF, and the empty input gives exactly that one token.             *)
C1_EndsInOneEOF ==
    Returned =>
        /\ Len(result) >= 1
        /\ Last(result).Type = EOF
        /\ Last(result).Literal = <<>>
        /\ \A k \in 1..(Len(result) - 1) : result[k].Type # EOF
        /\ (input = <<>> => Len(result) = 1)

C1_Witness ==
    /\ Returned
    /\ Len(result) >= 3
    /\ \E k \in 1..Len(result) : result[k].Type = ILLEGAL

(* C2: the scan never panics: every column read at the inner loop is inside    *)
(* the line the loop holds, every line read is a line of the input, and no     *)
(* empty literal reaches GenerateNewToken.                                     *)
C2_NoFailure ==
    /\ pc # "panic"
    /\ linePosition >= 0
    /\ columnPosition >= 0
    /\ (pc = "inner" /\ columnPosition < lineLen) => ch # OOB
    /\ (pc = "inner" /\ columnPosition < lineLen /\ ~isWhitespace(ch) /\ ch # BACKTICK) =>
            LET r == generateLiteral(line, columnPosition) IN
            /\ ~r.panic
            /\ r.literal # <<>>

\* the inner loop reads the held line while the line cursor is on a later line
C2_Witness ==
    /\ pc = "inner"
    /\ columnPosition < lineLen
    /\ tokens # <<>>
    /\ Last(tokens).Type = STRING_
    /\ linePosition < Len(lines)
    /\ At(lines, linePosition) # line
    /\ columnPosition >= Len(At(lines, linePosition))

(* C3: every character of the input that is no white space and lies on no      *)
(* comment line appears in the literal of some token of the result.            *)
C3_NoCharacterDropped ==
    Returned =>
        \A i \in 1..Len(lines) : \A c \in 1..Len(lines[i]) :
            (lines[i][c] \notin TrimSet /\ ~IsCommentLine(lines[i], commentPrefixes)) =>
                \E k \in 1..Len(result) : Holds(result[k].Literal, lines[i][c])

\* the input is one terminated raw string with a line break in it
IsOneRawString(in) ==
    /\ Len(in) >= 3
    /\ in[1] = BACKTICK
    /\ in[Len(in)] = BACKTICK
    /\ \A k \in 2..(Len(in) - 1) : in[k] # BACKTICK
    /\ \E k \in 2..(Len(in) - 1) : in[k] = LF

(* C4: an input that is one terminated raw string with a line break in it,     *)
(* with no comment prefixes, gives exactly two tokens: the string token whose  *)
(* literal is the whole input, then the EOF token.                             *)
C4_RawStringAlone ==
    (Returned /\ commentPrefixes = <<>> /\ IsOneRawString(input)) =>
        /\ Len(result) = 2
        /\ result[1].Type = STRING_
        /\ result[1].Literal = input
        /\ result[2].Type = EOF

(* C5: for an input without backticks the (kind, literal) pairs of the result  *)
(* are those of its lines that are no comment lines, in input order, then EOF: *)
(* a comment line contributes no token; the scenario gives the literals        *)
(* x = 5 + 10 ; y = x * 2 ; and the empty EOF literal.                         *)
C5_CommentLinesContributeNothing ==
    (Returned /\ ~Holds(input, BACKTICK)) =>
        /\ KindLits(result) = PairsWithoutComments(lines, commentPrefixes, 1)
        /\ (input = CommentScenario /\ commentPrefixes = << <<"/", "/">> >>) =>
                Literals(result) =
                    << <<"x">>, <<"=">>, <<"5">>, <<"+">>, <<"1", "0">>, <<";">>,
                       <<"y">>, <<"=">>, <<"x">>, <<"*">>, <<"2">>, <<";">>, <<>> >>

\* a comment line lies between two lines that give tokens
C5_Witness ==
    /\ Returned
    /\ ~Holds(input, BACKTICK)
    /\ Len(lines) = 3
    /\ IsCommentLine(lines[2], commentPrefixes)
    /\ ~IsCommentLine(lines[1], commentPrefixes)
    /\ ~IsCommentLine(lines[3], commentPrefixes)
    /\ Len(result) > 3

\* the kind TestGenerateNewToken wants for each operator and punctuation symbol
SymbolKinds ==
    { <<<<"+">>, PLUS>>, <<<<"-">>, MINUS>>, <<<<"*">>, ASTERISK>>, <<<<"/">>, SLASH>>,
      <<<<"%">>, PERCENT>>, <<<<"=">>, ASSIGN>>, <<<<"=", "=">>, EQ>>, <<<<"<">>, LT>>,
      <<<<">">>, GT>>, <<<<"!">>, BANG>>, <<<<"&">>, AND>>, <<<<"|">>, OR>>,
      <<<<"^">>, XOR>>, <<<<".">>, DOT>>, <<<<",">>, COMMA>>, <<<<";">>, SEMICOLON>>,
      <<<<":">>, COLON>>, <<<<"(">>, LPAREN>>, <<<<")">>, RPAREN>>, <<<<"{">>, LBRACE>>,
      <<<<"}">>, RBRACE>>, <<<<"[">>, LBRACKET>>, <<<<"]">>, RBRACKET>> }

\* the kind the first character alone decides
FirstCharacterKind(c) ==
    IF c \in Digits THEN INT
    ELSE IF c \in Letters \/ c = "_" THEN IDENT
    ELSE ILLEGAL

(* C6: GenerateNewToken gives each of the 23 operator and punctuation symbols  *)
(* its own kind, decides any other non-empty literal by its first character    *)
(* (digit INT, letter or underscore IDENT, else ILLEGAL), and copies literal,  *)
(* start, end and line into the token.                                         *)
C6_Classifier ==
    (pc = "tested" /\ arg.literal # <<>>) =>
        /\ tok.Literal = arg.literal
        /\ tok.Start = arg.start
        /\ tok.End = arg.end
        /\ tok.Line = arg.line
        /\ \A sk \in SymbolKinds : arg.literal = sk[1] => tok.Type = sk[2]
        /\ arg.literal \notin Symbols => tok.Type = FirstCharacterKind(arg.literal[1])

\* an identifier that begins with an underscore and goes on with other classes
C6_Witness ==
    /\ pc = "tested"
    /\ arg.literal = <<"_", "1">>
    /\ arg.start # arg.end
    /\ tok.Type = IDENT

(* C7: for every token of the result with a non-empty literal, the classifier  *)
(* applied to the literal gives the kind stored on the token.                  *)
C7_ReclassifyGivesStoredKind ==
    Returned =>
        \A k \in 1..Len(result) :
            result[k].Literal # <<>> =>
                GenerateNewToken(result[k].Literal, result[k].Start, result[k].End,
                                 result[k].Line).Type = result[k].Type

\* the extraction step is at a '=' of the line it reads
AtEquals ==
    /\ pc = "inner"
    /\ columnPosition < lineLen
    /\ ch = "="

(* C8: an extraction step at a '=' whose next character on the line is '='     *)
(* consumes both and appends one token '==' of kind EQ; at a '=' with another  *)
(* next character, or none, it consumes one and appends '=' of kind ASSIGN.    *)
C8_DoubleEquals ==
    [][ AtEquals =>
          IF columnPosition + 1 < Len(line) /\ line[columnPosition + 2] = "="
          THEN /\ columnPosition' = columnPosition + 2
               /\ tokens' = Append(tokens, Token(EQ, <<"=", "=">>, columnPosition,
                                                 columnPosition + 2, linePosition))
          ELSE /\ columnPosition' = columnPosition + 1
               /\ tokens' = Append(tokens, Token(ASSIGN, <<"=">>, columnPosition,
                                                 columnPosition + 1, linePosition))
      ]_vars

\* three '=' in a row have given '==' and then '='
C8_Witness ==
    /\ Len(tokens) >= 2
    /\ tokens[1].Type = EQ
    /\ tokens[2].Type = ASSIGN
    /\ tokens[2].Start = tokens[1].End

(* C9: every raw-string token of the result names in Line a line of the input  *)
(* that has a backtick at column Start, the backtick the token was opened by.  *)
C9_RawTokenAtItsBacktick ==
    Returned =>
        \A k \in 1..Len(result) :
            result[k].Type = STRING_ =>
                /\ result[k].Line < Len(lines)
                /\ At(At(lines, result[k].Line), result[k].Start) = BACKTICK

(* C10: every token of the result has End >= Start, and the EOF token has      *)
(* Start = End.                                                                *)
C10_EndNotBeforeStart ==
    Returned =>
        \A k \in 1..Len(result) :
            /\ result[k].End >= result[k].Start
            /\ result[k].Type = EOF => result[k].Start = result[k].End

\* a character of no class the scanner knows
IsUnknownCharacter(c) ==
    /\ c # OOB
    /\ c \notin {SPACE, TAB, LF, CR, BACKTICK, SQUOTE, DQUOTE, "_"}
    /\ c \notin Digits
    /\ c \notin Letters
    /\ ~isOperator(c)
    /\ ~isPunctuation(c)

(* C11: an extraction step at a character of no known class consumes exactly   *)
(* that character and appends exactly one token of kind ILLEGAL whose literal  *)
(* is that character; no such character is consumed without a token.           *)
C11_UnknownCharacterGivesIllegal ==
    [][ (pc = "inner" /\ columnPosition < lineLen /\ IsUnknownCharacter(ch)) =>
            /\ columnPosition' = columnPosition + 1
            /\ tokens' = Append(tokens, Token(ILLEGAL, <<ch>>, columnPosition,
                                              columnPosition + 1, linePosition))
      ]_vars

\* digits with at most one '.', a digit among them: what the number rule extracts
IsNumericLiteral(lit) ==
    /\ \A k \in 1..Len(lit) : lit[k] \in Digits \/ lit[k] = "."
    /\ \E k \in 1..Len(lit) : lit[k] \in Digits
    /\ Cardinality({k \in 1..Len(lit) : lit[k] = "."}) <= 1

(* C12: every token whose literal the number rule extracted (digits with at    *)
(* most one decimal point, begun by a digit or by a '.' before a digit) has    *)
(* kind INT.                                                                   *)
C12_NumbersAreINT ==
    Returned =>
        \A k \in 1..Len(result) :
            IsNumericLiteral(result[k].Literal) => result[k].Type = INT

(* C13: a second call of GenerateTokens on the same lexer returns the same     *)
(* token sequence as the first.                                                *)
C13_SecondCallSameResult ==
    Len(returned) >= 2 => returned[2] = returned[1]

\* the inner loop goes on right after a raw string that closed on a later line
AfterMultiLineRaw ==
    /\ pc = "inner"
    /\ tokens # <<>>
    /\ Last(tokens).Type = STRING_
    /\ terminated
    /\ startLine < linePosition

(* C14: after a raw string that began on line i is closed on a later line j,   *)
(* the scan goes on on line j behind the closing backtick: the line it reads   *)
(* from is line j, in its own length, and no longer line i.                    *)
C14_ResumesOnClosingLine ==
    AfterMultiLineRaw =>
        /\ linePosition < Len(lines)
        /\ line = At(lines, linePosition)
        /\ lineLen = Len(At(lines, linePosition))

\* how often the character c occurs in s
Count(s, c) == Cardinality({k \in 1..Len(s) : s[k] = c})

\* the characters of s
CharsOf(s) == {s[k] : k \in 1..Len(s)}

RECURSIVE Concat(_)
Concat(ss) == IF ss = <<>> THEN <<>> ELSE Head(ss) \o Concat(Tail(ss))

\* the line cursor never decreases
LineNeverBack == linePosition' >= linePosition

\* while a line is scanned and the scan stays on it, the column never decreases
ColumnNeverBack ==
    (pc \in {"inner", "raw"} /\ pc' \in {"inner", "raw"} /\ linePosition' = linePosition) =>
        columnPosition' >= columnPosition

\* no character of the input is in more tokens than the input has it: every
\* character of a literal is a copy of one consumed character of the input
NoCharacterInTwoTokens ==
    Returned =>
        LET all == Concat(Literals(result)) IN
        \A c \in CharsOf(all) \ {LF} : Count(all, c) <= Count(input, c)

(* C15: the line cursor never decreases, the column cursor never decreases     *)
(* while the scan stays on one line, and no character of the input is          *)
(* consumed into more than one token of the result.                            *)
C15_NoBacktracking ==
    [][LineNeverBack /\ ColumnNeverBack /\ NoCharacterInTwoTokens']_vars

\* a step that ends one turn of a scanning loop: every step of a call but the
\* entry of the inner loop, the append of the raw-string token and the return
LoopTurn ==
    /\ pc \in {"outer", "inner", "raw"}
    /\ pc' # "done"
    /\ ~(pc = "outer" /\ pc' = "inner")
    /\ ~(pc = "raw" /\ pc' = "inner")

\* the turn moves the cursor forward: to a later line, or on in the same line
CursorAdvances ==
    \/ linePosition' > linePosition
    \/ linePosition' = linePosition /\ columnPosition' > columnPosition

AtCommentLine ==
    /\ pc = "outer"
    /\ linePosition < Len(lines)
    /\ IsCommentLine(At(lines, linePosition), commentPrefixes)

\* the input has no backtick and its last line is a full-line comment
EndsInCommentLine ==
    /\ ~Holds(input, BACKTICK)
    /\ IsCommentLine(Last(lines), commentPrefixes)

(* C17: the step that skips a full-line comment advances the line cursor and   *)
(* leaves the column cursor at 0; when the last line of an input without raw   *)
(* strings is a comment line, the EOF token has Start = End = 0.               *)
C17_CommentSkipResetsColumn ==
    /\ [][AtCommentLine => (linePosition' = linePosition + 1 /\ columnPosition' = 0)]_vars
    /\ [](Returned /\ EndsInCommentLine => Last(result).Start = 0 /\ Last(result).End = 0)

\* the tokens of kind STRING_ in a token sequence
RawTokens(ts) == { k \in 1..Len(ts) : ts[k].Type = STRING_ }

\* the input has one backtick and no quote, so the raw string the backtick opens
\* is unterminated; the backtick is on no comment line
HasUnterminatedRaw ==
    /\ Count(input, BACKTICK) = 1
    /\ ~Holds(input, DQUOTE)
    /\ ~Holds(input, SQUOTE)
    /\ \A i \in 1..Len(lines) :
          Holds(lines[i], BACKTICK) => ~IsCommentLine(lines[i], commentPrefixes)

\* the input text from its first backtick to its end
FromBacktick(in) ==
    LET b == CHOOSE k \in 1..Len(in) : in[k] = BACKTICK /\ \A j \in 1..(k - 1) : in[j] # BACKTICK
    IN  SubSeq(in, b, Len(in))

(* C18: an unterminated raw string gives exactly one STRING token, whose       *)
(* literal is the input text from the opening backtick to the end of the       *)
(* input, and it is the last token before EOF: nothing of the consumed text    *)
(* is tokenized again.                                                         *)
C18_UnterminatedRawConsumesRest ==
    (Returned /\ HasUnterminatedRaw) =>
        /\ Cardinality(RawTokens(result)) = 1
        /\ \A k \in RawTokens(result) :
              /\ result[k].Literal = FromBacktick(input)
              /\ k = Len(result) - 1

(* C19: every token of a result that is neither the EOF token nor a raw-string *)
(* token has the index of a line of the input as its Line, and its Literal is  *)
(* the text of that line from Start up to End.                                 *)
C19_LiteralIsSliceOfItsLine ==
    Returned =>
        \A k \in 1..Len(result) :
            result[k].Type \notin {EOF, STRING_} =>
                /\ result[k].Line < Len(lines)
                /\ result[k].Start <= result[k].End
                /\ result[k].End <= Len(At(lines, result[k].Line))
                /\ result[k].Literal = Slice(At(lines, result[k].Line), result[k].Start, result[k].End)

(* C20: the Line of the EOF token is the number of lines of the input, also    *)
(* when the input ends inside an unterminated raw string.                      *)
C20_EOFLineIsLineCount ==
    Returned => Last(result).Line = Len(lines)

\* the outer loop is at a line of the input
AtLine == pc = "outer" /\ linePosition < Len(lines)

\* the step leaves the line behind without scanning it
LineSkipped ==
    /\ pc' = "outer"
    /\ linePosition' = linePosition + 1
    /\ tokens' = tokens

(* C21: a line is skipped exactly when its trimmed text begins with one of the *)
(* configured prefixes; with an empty prefix list no line is skipped; a prefix *)
(* after code suppresses no token: with prefix // the line x = 1 // c gives    *)
(* x, =, 1, /, /, c.                                                           *)
C21_CommentsAreWholeLines ==
    /\ [][AtLine => (LineSkipped <=> IsCommentLine(At(lines, linePosition), commentPrefixes))]_vars
    /\ [][(AtLine /\ commentPrefixes = <<>>) => ~LineSkipped]_vars
    /\ [](( /\ Returned
            /\ input = InlineCommentScenario
            /\ commentPrefixes = << <<"/", "/">> >> ) =>
                Literals(result) =
                    << <<"x">>, <<"=">>, <<"1">>, <<"/">>, <<"/">>, <<"c">>, <<>> >>)

\* the scenario with a comment line and a prefix after code has been scanned
C21_Witness ==
    /\ Returned
    /\ input = InlineCommentScenario
    /\ commentPrefixes = << <<"/", "/">> >>
    /\ IsCommentLine(lines[1], commentPrefixes)
    /\ Len(result) = 7

\* an operator or punctuation character
IsSymbol(c) == isOperator(c) \/ isPunctuation(c)

\* the literal of an identifier run or a number run: it begins with a letter, an
\* underscore or a digit
IsRunLiteral(lit) == lit # <<>> /\ (isLetter(lit[1]) \/ lit[1] = "_" \/ isDigit(lit[1]))

(* C22: an identifier run or a number run stops before the next operator or    *)
(* punctuation character and leaves it for the next extraction: the only such  *)
(* character inside the literal of a run is the decimal point between two      *)
(* digits of a number, and 1.a gives the number 1, the dot and a.              *)
C22_RunsStopBeforeSymbols ==
    (Returned /\ ~Holds(input, BACKTICK)) =>
        /\ \A k \in 1..Len(result) :
              IsRunLiteral(result[k].Literal) =>
                  \A j \in 1..Len(result[k].Literal) :
                      IsSymbol(result[k].Literal[j]) =>
                          /\ result[k].Literal[j] = "."
                          /\ isDigit(result[k].Literal[1])
                          /\ j < Len(result[k].Literal)
                          /\ isDigit(result[k].Literal[j + 1])
        /\ input = <<"1", ".", "a">> =>
              Literals(result) = << <<"1">>, <<".">>, <<"a">>, <<>> >>

\* the inner loop is at a single or double quote of the held line
AtQuote == pc = "inner" /\ columnPosition < lineLen /\ ch \in {DQUOTE, SQUOTE}

\* a literal that begins with quote q and ends with the next q in it
ClosedQuoted(lit, q) ==
    /\ Len(lit) >= 2
    /\ lit[Len(lit)] = q
    /\ \A j \in 2..(Len(lit) - 1) : lit[j] # q

(* C23: the extraction at a single or double quote appends one token of kind   *)
(* ILLEGAL whose literal is the text of the held line from the quote up to and *)
(* with the next same quote, or up to the end of the line when there is none;  *)
(* every token of kind STRING begins with a backtick.                          *)
C23_QuotedStringsAreIllegal ==
    /\ [][AtQuote =>
            LET t == Last(tokens') IN
            /\ tokens' = Append(tokens, t)
            /\ t.Type = ILLEGAL
            /\ t.Literal[1] = ch
            /\ t.Literal = Slice(line, columnPosition, columnPosition')
            /\ t.Start = columnPosition
            /\ t.End = columnPosition'
            /\ columnPosition' <= lineLen
            /\ ~Holds(t.Literal, LF)
            /\ \/ ClosedQuoted(t.Literal, ch)
               \/ columnPosition' = lineLen /\ \A j \in 2..Len(t.Literal) : t.Literal[j] # ch
       ]_vars
    /\ [](\A k \in 1..Len(tokens) :
            /\ tokens[k].Type = STRING_ => tokens[k].Literal[1] = BACKTICK
            /\ (tokens[k].Literal # <<>> /\ tokens[k].Literal[1] \in {DQUOTE, SQUOTE}) =>
                    tokens[k].Type = ILLEGAL)

\* a call has returned a token for a closed quoted string with text in it
C23_Witness ==
    /\ Returned
    /\ ~Holds(input, BACKTICK)
    /\ \E k \in 1..Len(result) :
          /\ result[k].Type = ILLEGAL
          /\ Len(result[k].Literal) >= 3
          /\ result[k].Literal[1] = DQUOTE
          /\ ClosedQuoted(result[k].Literal, DQUOTE)

====
